---- MODULE Spec2Model ----
(***************************************************************************)
(* Kernighan-Lin two-way partitioning (src/kl.py).                         *)
(*                                                                         *)
(* The model follows the program of the __main__ block: read_netlist reads *)
(* the netlist line by line, Graph.__init__ links edges and vertices,      *)
(* KernighanLin.partition() runs the initial split, the improvement loop   *)
(* (one action per outer iteration) and the final report.  The caller may  *)
(* invoke partition() again on the same Graph.                             *)
(*                                                                         *)
(* Vertex objects are identified by their id; Edge objects by their        *)
(* position in Graph.edges (Edge defines neither __eq__ nor __hash__, so   *)
(* set(a.edges).intersection(b.edges) compares object identity).           *)
(*                                                                         *)
(* Input bound: the lines read name ids 1..MaxId, never a self-loop (the   *)
(* data model assumes left_id /= right_id), and ids are numbered in order  *)
(* of first appearance (the algorithm only compares ids for equality, so   *)
(* every netlist is a renaming of one of these).                           *)
(***************************************************************************)
EXTENDS Integers, Sequences, FiniteSets, TLC

MaxId == 5      \* vertex ids are drawn from 1..MaxId
MaxLines == 4   \* at most this many netlist lines are read
MaxRuns == 2    \* partition() is called at most this many times

VARIABLES
    vertices,     \* Graph.vertices: sequence of vertex ids, first-seen order
    edges,        \* Graph.edges: sequence of <<left_id, right_id>>
    adj,          \* Vertex.edges: id -> sequence of edge positions
    label,        \* Vertex.partition_label: id -> "None" | "A" | "B"
    pc,           \* "read" | "ready" | "loop" | "break" | "done" | "error"
    k,            \* number of outer iterations started in this call
    group_a,      \* local group_a of partition() (vertex ids)
    group_b,      \* local group_b of partition() (vertex ids)
    D_values,     \* local D_values dict of partition()
    gains,        \* local gains list after sorting: <<a, b, gain>> entries
    max_gain,     \* local max_gain
    pair,         \* local pair: <<a, b>>, or <<>> while unbound
    total_gain,   \* local total_gain
    cutset,       \* returned cut size (a decimal string)
    ids_a,        \* returned list of group A ids
    ids_b,        \* returned list of group B ids
    run,          \* number of partition() calls started
    prev          \* what the previous partition() call returned (caller's copy)

vars == <<vertices, edges, adj, label, pc, k, group_a, group_b, D_values,
          gains, max_gain, pair, total_gain, cutset, ids_a, ids_b, run, prev>>

locals == <<group_a, group_b, D_values, gains, max_gain, pair, total_gain>>
returned == <<cutset, ids_a, ids_b>>

Range(s) == {s[i] : i \in 1..Len(s)}

EmptyMap == [x \in {} |-> 0]

----------------------------------------------------------------------------
(* read_netlist *)

\* vertices.append(Vertex(id)) unless the id was seen before
AppendVertex(vs, id) == IF id \in Range(vs) THEN vs ELSE Append(vs, id)

\* one line of the file: edges.append(Edge(l, r)), then the two seen checks
ReadLine ==
    /\ pc = "read"
    /\ Len(edges) < MaxLines
    /\ \E l, r \in 1..MaxId :
         /\ l # r
         /\ l <= Len(vertices) + 1
         /\ r <= Len(AppendVertex(vertices, l)) + 1
         /\ edges' = Append(edges, <<l, r>>)
         /\ vertices' = AppendVertex(AppendVertex(vertices, l), r)
         /\ adj' = [v \in Range(vertices') |-> <<>>]
         /\ label' = [v \in Range(vertices') |-> "None"]
    /\ UNCHANGED <<pc, k, locals, returned, run, prev>>

----------------------------------------------------------------------------
(* Vertex.add_edge, Graph.__init__ *)

\* Vertex.add_edge: append unless an edge with swapped ends is already there
add_edge(vedges, e, es) ==
    IF \E i \in 1..Len(vedges) :
          es[vedges[i]][1] = es[e][2] /\ es[vedges[i]][2] = es[e][1]
    THEN vedges
    ELSE Append(vedges, e)

\* the for loop of Graph.__init__ over the first n edges
RECURSIVE LinkEdges(_, _, _)
LinkEdges(vs, es, n) ==
    IF n = 0 THEN [v \in Range(vs) |-> <<>>]
    ELSE LET a == LinkEdges(vs, es, n - 1)
             l == es[n][1]
             r == es[n][2]
             a1 == [a EXCEPT ![l] = add_edge(a[l], n, es)]
         IN  [a1 EXCEPT ![r] = add_edge(a1[r], n, es)]

\* return Graph(vertices, edges); kl = KernighanLin(graph)
Construct ==
    /\ pc = "read"
    /\ adj' = LinkEdges(vertices, edges, Len(edges))
    /\ pc' = "ready"
    /\ UNCHANGED <<vertices, edges, label, k, locals, returned, run, prev>>

\* Graph.get_partition_cost
get_partition_cost(es, lbl) ==
    Cardinality({i \in 1..Len(es) : lbl[es[i][1]] # lbl[es[i][2]]})

\* Vertex.get_D_value
RECURSIVE SumD(_, _, _, _, _)
SumD(v, vedges, es, lbl, n) ==
    IF n = 0 THEN 0
    ELSE LET e == vedges[n]
             other_v == IF es[e][2] = v THEN es[e][1] ELSE es[e][2]
         IN  SumD(v, vedges, es, lbl, n - 1)
               + (IF lbl[other_v] # lbl[v] THEN 1 ELSE -1)

get_D_value(v, a, es, lbl) == SumD(v, a[v], es, lbl, Len(a[v]))

----------------------------------------------------------------------------
(* KernighanLin.partition: initial split *)

Half(vs) == Len(vs) \div 2

\* the first n rounds of: vertices[i] <- "A"; vertices[i + half] <- "B"
RECURSIVE SplitLoop(_, _, _, _)
SplitLoop(vs, lbl, half, n) ==
    IF n = 0 THEN lbl
    ELSE LET l0 == SplitLoop(vs, lbl, half, n - 1)
             l1 == [l0 EXCEPT ![vs[n]] = "A"]
         IN  [l1 EXCEPT ![vs[n + half]] = "B"]

\* a split that labels only vertices that have no label yet
InitialSplit_keep(vs, lbl) ==
    LET fresh == SplitLoop(vs, lbl, Half(vs), Half(vs))
    IN  [v \in DOMAIN lbl |-> IF lbl[v] = "None" THEN fresh[v] ELSE lbl[v]]

\* a split whose second assignment indexes vertices[i] instead of [i + half]
InitialSplit_sameIndex(vs, lbl) ==
    [v \in DOMAIN lbl |->
        IF \E i \in 1..Half(vs) : vs[i] = v THEN "B" ELSE lbl[v]]

InitialSplit(vs, lbl) == SplitLoop(vs, lbl, Half(vs), Half(vs))

\* partition(), up to the loop head
Split ==
    /\ pc = "ready"
    /\ run < MaxRuns
    /\ run' = run + 1
    /\ label' = InitialSplit(vertices, label)
    /\ total_gain' = 0
    /\ k' = 0
    /\ group_a' = <<>>
    /\ group_b' = <<>>
    /\ D_values' = EmptyMap
    /\ gains' = <<>>
    /\ max_gain' = 0
    /\ pair' = <<>>
    /\ pc' = "loop"
    /\ UNCHANGED <<vertices, edges, adj, returned, prev>>

----------------------------------------------------------------------------
(* KernighanLin.partition: one outer iteration *)

\* [v for v in self.graph.vertices if v.partition_label == which]
Group(vs, lbl, which) == SelectSeq(vs, LAMBDA v : lbl[v] = which)

\* {v.id: v.get_D_value() for v in self.graph.vertices}
AllD(vs, a, es, lbl) == [v \in Range(vs) |-> get_D_value(v, a, es, lbl)]

\* len(set(x.edges).intersection(y.edges))
Common(a, x, y) == Cardinality(Range(a[x]) \cap Range(a[y]))

Gain_plus(Da, Db, c) == Da + Db + (2 * c)

\* gain = D_values[a.id] + D_values[b.id] - (2 * c_ab)
Gain(Da, Db, c) == Da + Db - (2 * c)

\* the nested loops: for a in group_a: for b in group_b: gains.append(...)
Candidates(ga, gb, a, D) ==
    [i \in 1..(Len(ga) * Len(gb)) |->
        LET x == ga[((i - 1) \div Len(gb)) + 1]
            y == gb[((i - 1) % Len(gb)) + 1]
        IN  <<x, y, Gain(D[x], D[y], Common(a, x, y))>>]

\* an insertion that puts g in front of the entries with the same gain
InsertGain_unstable(s, g) ==
    LET n == Cardinality({i \in 1..Len(s) : s[i][3] > g[3]})
    IN  SubSeq(s, 1, n) \o <<g>> \o SubSeq(s, n + 1, Len(s))

\* insert g into s (sorted by descending gain) behind the entries whose gain
\* is at least g's: sorted(..., reverse=True) keeps equal keys in list order
InsertGain(s, g) ==
    LET n == Cardinality({i \in 1..Len(s) : s[i][3] >= g[3]})
    IN  SubSeq(s, 1, n) \o <<g>> \o SubSeq(s, n + 1, Len(s))

\* sorted(gains, key=lambda x: x[1], reverse=True) of the first n entries
RECURSIVE SortedGains(_, _)
SortedGains(g, n) ==
    IF n = 0 THEN <<>> ELSE InsertGain(SortedGains(g, n - 1), g[n])

\* if max_gain <= 0: break
ShouldBreak(mg) == mg <= 0

\* list.remove(v)
Remove(s, v) == SelectSeq(s, LAMBDA x : x # v)

\* pair[0].partition_label = "B"; pair[1].partition_label = "A"
SwapLabels(lbl, p) == [lbl EXCEPT ![p[1]] = "B", ![p[2]] = "A"]

UpdateD_flipped(D, ga, gb, a, p) ==
    [v \in DOMAIN D |->
        IF v \in Range(ga)
        THEN D[v] + 2 * Common(a, v, p[2]) - 2 * Common(a, v, p[1])
        ELSE IF v \in Range(gb)
        THEN D[v] + 2 * Common(a, v, p[1]) - 2 * Common(a, v, p[2])
        ELSE D[v]]

\* the two update loops over the remaining group_a and group_b
UpdateD(D, ga, gb, a, p) ==
    [v \in DOMAIN D |->
        IF v \in Range(ga)
        THEN D[v] + 2 * Common(a, v, p[1]) - 2 * Common(a, v, p[2])
        ELSE IF v \in Range(gb)
        THEN D[v] + 2 * Common(a, v, p[2]) - 2 * Common(a, v, p[1])
        ELSE D[v]]

\* one pass through the body of: for _ in range(half)
Iterate ==
    /\ pc = "loop"
    /\ k < Half(vertices)
    /\ k' = k + 1
    /\ LET ga == Group(vertices, label, "A")
           gb == Group(vertices, label, "B")
           D  == AllD(vertices, adj, edges, label)
           cs == Candidates(ga, gb, adj, D)
           sg == SortedGains(cs, Len(cs))
       IN  IF Len(sg) = 0
           THEN \* gains[0] raises IndexError
                /\ pc' = "error"
                /\ group_a' = ga /\ group_b' = gb /\ D_values' = D
                /\ gains' = sg
                /\ UNCHANGED <<label, max_gain, pair, total_gain>>
           ELSE IF ShouldBreak(sg[1][3])
           THEN /\ pc' = "break"
                /\ group_a' = ga /\ group_b' = gb /\ D_values' = D
                /\ gains' = sg
                /\ max_gain' = sg[1][3]
                /\ UNCHANGED <<label, pair, total_gain>>
           ELSE LET p  == <<sg[1][1], sg[1][2]>>
                    ra == Remove(ga, p[1])
                    rb == Remove(gb, p[2])
                IN  /\ pc' = "loop"
                    /\ gains' = sg
                    /\ max_gain' = sg[1][3]
                    /\ pair' = p
                    /\ group_a' = ra
                    /\ group_b' = rb
                    /\ label' = SwapLabels(label, p)
                    /\ D_values' = UpdateD(D, ra, rb, adj, p)
                    /\ total_gain' = total_gain + sg[1][3]
    /\ UNCHANGED <<vertices, edges, adj, returned, run, prev>>

----------------------------------------------------------------------------
(* KernighanLin.partition: the result *)

\* after the loop: cutset, the two id lists, return
Report ==
    /\ pc = "break" \/ (pc = "loop" /\ k >= Half(vertices))
    /\ cutset' = ToString(get_partition_cost(edges, label))
    /\ ids_a' = Group(vertices, label, "A")
    /\ ids_b' = Group(vertices, label, "B")
    /\ group_a' = ids_a'
    /\ group_b' = ids_b'
    /\ pc' = "done"
    /\ UNCHANGED <<vertices, edges, adj, label, k, D_values, gains, max_gain,
                   pair, total_gain, run, prev>>

\* the caller keeps what partition() returned and may call it again
Recall ==
    /\ pc = "done"
    /\ run < MaxRuns
    /\ prev' = <<cutset, ids_a, ids_b>>
    /\ pc' = "ready"
    /\ UNCHANGED <<vertices, edges, adj, label, k, locals, returned, run>>

----------------------------------------------------------------------------
Init ==
    /\ vertices = <<>>
    /\ edges = <<>>
    /\ adj = EmptyMap
    /\ label = EmptyMap
    /\ pc = "read"
    /\ k = 0
    /\ group_a = <<>>
    /\ group_b = <<>>
    /\ D_values = EmptyMap
    /\ gains = <<>>
    /\ max_gain = 0
    /\ pair = <<>>
    /\ total_gain = 0
    /\ cutset = ""
    /\ ids_a = <<>>
    /\ ids_b = <<>>
    /\ run = 0
    /\ prev = <<>>

Next ==
    \/ ReadLine
    \/ Construct
    \/ Split
    \/ Iterate
    \/ Report
    \/ Recall

Spec == Init /\ [][Next]_vars

----------------------------------------------------------------------------
(* Properties *)

Cost == get_partition_cost(edges, label)
N == Len(vertices)
Labelled == pc \in {"loop", "break", "done"}

\* a step of Iterate that accepted a swap
SwapStep == pc = "loop" /\ pc' = "loop" /\ k' = k + 1

\* C1: across the outer iterations of partition() the cut cost never
\* increases: every iteration leaves get_partition_cost() at or below the
\* value it had before the iteration.
C1_CutNeverIncreases ==
    [][(pc = "loop" /\ pc' \in {"loop", "break"})
          => get_partition_cost(edges', label') <= Cost]_vars

\* C2: for every accepted swap, the cut cost before the label flip minus the
\* cut cost after it equals the gain partition() computed for the pair.
C2_GainConsistency ==
    [][SwapStep => Cost - get_partition_cost(edges', label') = max_gain']_vars

\* C3: from the end of the initial split on every vertex is labelled A or
\* B, group A has floor(|V|/2) members and group B ceil(|V|/2), and the
\* returned lists together hold every vertex id exactly once.
C3_Conservation ==
    Labelled =>
        /\ \A v \in Range(vertices) : label[v] \in {"A", "B"}
        /\ Len(Group(vertices, label, "A")) = N \div 2
        /\ Len(Group(vertices, label, "B")) = N - (N \div 2)
        /\ pc = "done" =>
              /\ Len(ids_a) + Len(ids_b) = N
              /\ Range(ids_a) \cup Range(ids_b) = Range(vertices)

ScenarioA ==
    /\ edges = << <<1, 2>>, <<2, 3>>, <<3, 4>>, <<4, 1>> >>
    /\ vertices = <<1, 2, 3, 4>>

\* C4 as stated: on the 4-cycle (1,2),(2,3),(3,4),(4,1) partition() swaps a
\* pair and returns cut size 0.
C4_ScenarioA_CutZero ==
    (ScenarioA /\ pc = "done") => (cutset = "0" /\ pair # <<>>)

\* C4 amended: on the 4-cycle (1,2),(2,3),(3,4),(4,1) the best gain of the
\* first iteration is 0, partition() swaps nothing and returns cut size 2
\* with group A = [1,2] and group B = [3,4].
C4_ScenarioA_CutTwo ==
    (ScenarioA /\ pc = "done") =>
        /\ cutset = "2"
        /\ ids_a = <<1, 2>>
        /\ ids_b = <<3, 4>>
        /\ pair = <<>>
        /\ max_gain = 0
        /\ k = 1

C4_Witness == ScenarioA /\ pc = "done" /\ run = 1

SamePair(e, f) == {e[1], e[2]} = {f[1], f[2]}

\* C5: after Graph construction at most one Edge joins any two vertices, in
\* Graph.edges and in every Vertex.edges, so c_ab is always 0 or 1.
C5_EdgeUniqueness ==
    pc # "read" =>
        /\ \A i, j \in 1..Len(edges) : SamePair(edges[i], edges[j]) => i = j
        /\ \A v \in Range(vertices) : \A i, j \in 1..Len(adj[v]) :
              SamePair(edges[adj[v][i]], edges[adj[v][j]]) => i = j
        /\ \A x, y \in Range(vertices) : x # y => Common(adj, x, y) \in {0, 1}

\* C6: partition() never indexes an empty gains list and starts at most
\* floor(|V|/2) outer iterations before it returns; for the empty vertex
\* list it runs no iteration and returns cut size 0 and two empty groups.
C6_Termination ==
    /\ pc # "error"
    /\ k <= Half(vertices)
    /\ (pc = "done" /\ vertices = <<>>) =>
          (k = 0 /\ cutset = "0" /\ ids_a = <<>> /\ ids_b = <<>>)


C6_Witness == pc = "done" /\ k = Half(vertices) /\ k >= 2 /\ pair # <<>>

\* C7: a second call of partition() on the same Graph returns the same cut
\* size and the same two id lists as the call before it.
C7_Repeatable ==
    (pc = "done" /\ run >= 2) => <<cutset, ids_a, ids_b>> = prev

C7_Witness ==
    pc = "done" /\ run = 2 /\ pair # <<>> /\ prev = <<cutset, ids_a, ids_b>>

Remaining == Range(group_a) \cup Range(group_b)

\* C8: right after an accepted swap, the incrementally updated D value of
\* every vertex left in the local group_a and group_b equals get_D_value()
\* recomputed from the new labels.
C8_IncrementalD ==
    (pc = "loop" /\ pair # <<>>) =>
        \A x \in Remaining :
            D_values[x] = get_D_value(x, adj, edges, label)

C8_Witness ==
    /\ pc = "loop"
    /\ pair # <<>>
    /\ \E x \in Remaining :
          Common(adj, x, pair[1]) # Common(adj, x, pair[2])

\* C9: when partition() has returned, no exchange of one vertex of group A
\* with one vertex of group B strictly lowers the cut cost.
C9_LocalOptimum ==
    pc = "done" =>
        \A a \in Range(ids_a), b \in Range(ids_b) :
            get_partition_cost(edges, SwapLabels(label, <<a, b>>)) >= Cost

\* the candidates of the iteration about to run, in enumeration order
Cands ==
    Candidates(Group(vertices, label, "A"), Group(vertices, label, "B"),
               adj, AllD(vertices, adj, edges, label))

\* C10: the pair swapped in an iteration is the first pair, in the nested
\* enumeration over group A then group B, whose gain is the maximum over
\* all candidates.
C10_FirstMaximum ==
    [][SwapStep =>
        \E i \in 1..Len(Cands) :
            /\ \A j \in 1..Len(Cands) : Cands[j][3] <= Cands[i][3]
            /\ \A j \in 1..(i - 1) : Cands[j][3] < Cands[i][3]
            /\ pair' = <<Cands[i][1], Cands[i][2]>>
            /\ max_gain' = Cands[i][3]]_vars

C10_Witness ==
    /\ pc = "loop"
    /\ pair # <<>>
    /\ Len(gains) >= 2
    /\ gains[2][3] = gains[1][3]

====
